---- MODULE Spec2Model ----
(***************************************************************************)
(* Signal engine of the sigma-alert scripts: rolling volatility, trigger   *)
(* events, take-profit grid search, the per-ticker report loop and the     *)
(* hand-over to the Discord sink.                                          *)
(*                                                                         *)
(* Numbers.  Closes are positive integers; NaN (a missing close) is 0.     *)
(* A daily return is the exact rational (c[j]-c[j-1])/c[j-1], written      *)
(* [num, den] with den > 0.  A standard deviation is carried by its        *)
(* square, a reduced rational [num, den]: sigma >= 0, so the square        *)
(* determines it, and every comparison the code makes with sigma is made   *)
(* here on squares, exactly.  Float rounding is not modelled.              *)
(*                                                                         *)
(* Scale.  The scripts use a 252-day window, min_periods 120, a 30-row     *)
(* margin, a 20-day forward path and "365D".  Series of that length        *)
(* cannot be enumerated, so these lengths are scaled down and named below; *)
(* every formula is stated in terms of the names, not of their values.     *)
(***************************************************************************)
EXTENDS Integers, Sequences, FiniteSets, TLC

\* ---------------------------------------------------------------- scale
\* lookback window W (LOOKBACK_TRADING_DAYS / lookback_window, 252 in the code)
W == 3
\* margin of optimize_tp_fixed_pct_for_symbol (30 in the code)
Margin == 4
\* forward_days of _find_signals_and_forward_path (20 in the code)
ForwardDays == 2
\* the "365D" of Series.last, in days
HorizonDays == 9
\* longest column of closes that is enumerated
MaxLen == 8
\* longest column with NaN rows that is enumerated
MaxRaw == 6
\* min_periods of the rolling sigma (120 in the code)
MinPeriods == 2
\* most events, longest grid and longest forward path handed to the grid search
MaxEvents == 2
MaxGrid == 2
MaxPath == 1
\* FEES, in units of 1e-5 (0.00065)
FEES == 65
\* K_FIXED of the two 1-sigma scripts
K_FIXED_QLD == 10
K_FIXED_SOXL == 2

\* a missing close, as a row of a column
NaN == 0
\* the float NaN and Python's None, as results; a result not yet computed
NaNf == [nan |-> TRUE]
None == [none |-> TRUE]
Unset == [unset |-> TRUE]
PriceSet == {2, 3, 4}

\* ------------------------------------------------------------ arithmetic
RECURSIVE Gcd(_, _)
Gcd(a, b) == IF b = 0 THEN a ELSE Gcd(b, a % b)

Abs(x) == IF x < 0 THEN -x ELSE x

\* the rational n/d (d > 0) in lowest terms
Rat(n, d) ==
    LET g == Gcd(Abs(n), d)
    IN  [num |-> n \div g, den |-> d \div g]

RECURSIVE SumSeq(_)
SumSeq(s) == IF s = <<>> THEN 0 ELSE Head(s) + SumSeq(Tail(s))

RECURSIVE ProdSeq(_)
ProdSeq(s) == IF s = <<>> THEN 1 ELSE Head(s) * ProdSeq(Tail(s))

Min(a, b) == IF a < b THEN a ELSE b
Max(a, b) == IF a > b THEN a ELSE b

\* ------------------------------------------------------- pandas helpers
\* Series.dropna(): the rows that hold a value, in order
RECURSIVE DropNa(_)
DropNa(s) ==
    IF s = <<>> THEN <<>>
    ELSE IF Head(s) = NaN THEN DropNa(Tail(s))
         ELSE <<Head(s)>> \o DropNa(Tail(s))

\* Series.pct_change().dropna() of a NaN-free series of positive closes:
\* one return per row but the first
PctChange(s) ==
    [j \in 1..(IF Len(s) = 0 THEN 0 ELSE Len(s) - 1) |->
        [num |-> s[j + 1] - s[j], den |-> s[j]]]

\* s.iloc[start:stop] with Python's rules: 0-based, stop exclusive, a
\* negative bound counts from the end, both bounds clipped to the series
PyIdx(n, k) == IF k < 0 THEN Max(n + k, 0) ELSE Min(k, n)

ILoc(s, start, stop) ==
    LET a == PyIdx(Len(s), start)
        b == PyIdx(Len(s), stop)
    IN  IF b <= a THEN <<>> ELSE SubSeq(s, a + 1, b)

\* Series.std() (ddof = 1) of a window of returns, as the square of the
\* result; NaN for fewer than two observations
StdSq(win) ==
    LET n == Len(win)
        L == ProdSeq([j \in 1..n |-> win[j].den])
        a == [j \in 1..n |-> win[j].num * (L \div win[j].den)]
        s1 == SumSeq(a)
        s2 == SumSeq([j \in 1..n |-> a[j] * a[j]])
    IN  IF n < 2 THEN NaNf
        ELSE Rat(n * s2 - s1 * s1, n * (n - 1) * L * L)

\* np.isfinite(sigma): a std is finite unless it is NaN
IsFinite(sq) == sq # NaNf

\* ------------------------------------------------------- compute_sigma
compute_sigma_short(close_series, window) ==
    LET s == DropNa(close_series)
        returns == PctChange(s)
    IN  IF Len(returns) < window THEN None
        ELSE LET sigma == StdSq(ILoc(returns, -window - 1, -1))
             IN  IF IsFinite(sigma) THEN sigma ELSE None

compute_sigma(close_series, window) ==
    LET s == DropNa(close_series)
        returns == PctChange(s)
    IN  IF Len(returns) < window + 1 THEN None
        ELSE LET sigma == StdSq(ILoc(returns, -window - 1, -1))
             IN  IF IsFinite(sigma) THEN sigma ELSE None

\* price <= base * (1 - k*sigma), sigma given by its square sq (base > 0):
\* k*sigma*base <= base - price, both sides compared after squaring
LeqThreshold(price, base, k, sq) ==
    /\ base - price >= 0
    /\ k * k * sq.num * base * base <= (base - price) * (base - price) * sq.den

\* ------------------------------------- _find_signals_and_forward_path
\* the 0-based element s.iloc[i]
At(s, i) == s[i + 1]

\* one pass of the loop body for index i: the event, or <<>> on continue
signal_at_lookahead(s, returns, i, lookback_window, forward_days) ==
    LET sigma == StdSq(ILoc(returns, i - lookback_window, i))
        prev_close == At(s, i - 1)
        today_close == At(s, i)
        j_end == Min(i + 1 + forward_days, Len(s))
    IN  IF ~IsFinite(sigma) \/ sigma.num <= 0 THEN <<>>
        ELSE IF LeqThreshold(today_close, prev_close, 2, sigma)
             THEN <<[date |-> i, entry |-> today_close, prev_close |-> prev_close,
                     sigma |-> sigma, forward_high |-> ILoc(s, i + 1, j_end)]>>
             ELSE <<>>

signal_at(s, returns, i, lookback_window, forward_days) ==
    LET sigma == StdSq(ILoc(returns, i - lookback_window - 1, i - 1))
        prev_close == At(s, i - 1)
        today_close == At(s, i)
        j_end == Min(i + 1 + forward_days, Len(s))
    IN  IF ~IsFinite(sigma) \/ sigma.num <= 0 THEN <<>>
        ELSE IF LeqThreshold(today_close, prev_close, 2, sigma)
             THEN <<[date |-> i, entry |-> today_close, prev_close |-> prev_close,
                     sigma |-> sigma, forward_high |-> ILoc(s, i + 1, j_end)]>>
             ELSE <<>>

\* for i in range(lo, hi): the events appended in loop order
RECURSIVE signals_in_range(_, _, _, _, _, _)
signals_in_range(s, returns, lo, hi, lookback_window, forward_days) ==
    IF lo >= hi THEN <<>>
    ELSE signal_at(s, returns, lo, lookback_window, forward_days)
         \o signals_in_range(s, returns, lo + 1, hi, lookback_window, forward_days)

find_signals_and_forward_path(series, lookback_window, forward_days) ==
    LET s == DropNa(series)
        returns == PctChange(s)
    IN  signals_in_range(s, returns, lookback_window + 1, Len(s) - 1,
                         lookback_window, forward_days)

\* ------------------------------------ optimize_tp_fixed_pct_for_symbol
\* the calendar day of row j of a download: five trading days a week
DateOf(j) == j + 2 * ((j - 1) \div 5)

\* Series.last("365D"): the rows dated after (last date - offset)
Last(series, days) ==
    LET n == Len(series)
        first == CHOOSE j \in 1..n :
                    /\ DateOf(j) > DateOf(n) - days
                    /\ \A k \in 1..(j - 1) : DateOf(k) <= DateOf(n) - days
    IN  IF n = 0 THEN <<>> ELSE SubSeq(series, first, n)

\* a take-profit tp and the fees are in units of 1e-5
\* np.any(f_high >= entry * (1 + tp))
Hit(ev, tp) ==
    \E k \in 1..Len(ev.forward_high) :
        ev.forward_high[k] * 100000 >= ev.entry * (100000 + tp)

\* the inner loop: total_return over the events for one tp
RECURSIVE total_return_of(_, _, _)
total_return_of(evs, tp, fees) ==
    IF evs = <<>> THEN 0
    ELSE (IF Hit(Head(evs), tp) THEN tp - 2 * fees ELSE 0)
         + total_return_of(Tail(evs), tp, fees)

NegInf == [neginf |-> TRUE]

\* the outer loop over tp_grid from (best_tp, best_score)
RECURSIVE grid_search_last(_, _, _, _, _)
grid_search_last(tp_grid, evs, fees, best_tp, best_score) ==
    IF tp_grid = <<>> THEN best_tp
    ELSE LET tp == Head(tp_grid)
             total_return == total_return_of(evs, tp, fees)
         IN  IF best_score = NegInf \/ total_return >= best_score.v
             THEN grid_search_last(Tail(tp_grid), evs, fees, [tp |-> tp], [v |-> total_return])
             ELSE grid_search_last(Tail(tp_grid), evs, fees, best_tp, best_score)

RECURSIVE grid_search(_, _, _, _, _)
grid_search(tp_grid, evs, fees, best_tp, best_score) ==
    IF tp_grid = <<>> THEN best_tp
    ELSE LET tp == Head(tp_grid)
             total_return == total_return_of(evs, tp, fees)
         IN  IF best_score = NegInf \/ total_return > best_score.v
             THEN grid_search(Tail(tp_grid), evs, fees, [tp |-> tp], [v |-> total_return])
             ELSE grid_search(Tail(tp_grid), evs, fees, best_tp, best_score)

\* np.round(np.arange(0.02, 0.2001, 0.005), 3): 2.0%, 2.5%, ..., 20.0%
DefaultGrid == [k \in 1..37 |-> 2000 + 500 * (k - 1)]

optimize_tp_unguarded(close_series, tp_grid, lookback_window, forward_days, fees) ==
    LET s == DropNa(Last(close_series, HorizonDays))
        evs == find_signals_and_forward_path(s, lookback_window, forward_days)
    IN  IF evs = <<>> THEN None
        ELSE grid_search(tp_grid, evs, fees, None, NegInf)

optimize_tp_fixed_pct_for_symbol(close_series, tp_grid, lookback_window, forward_days, fees) ==
    LET s == DropNa(Last(close_series, HorizonDays))
        evs == find_signals_and_forward_path(s, lookback_window, forward_days)
    IN  IF Len(s) < lookback_window + Margin THEN None
        ELSE IF evs = <<>> THEN None
             ELSE grid_search(tp_grid, evs, fees, None, NegInf)

\* --------------------------------- the 1-sigma scripts: load_data
Zero == [num |-> 0, den |-> 1]

\* DataFrame.pct_change() of a NaN-free column: NaN in the first row
PctChangeRows(c) ==
    [j \in 1..Len(c) |->
        IF j = 1 THEN NaNf ELSE [num |-> c[j] - c[j - 1], den |-> c[j - 1]]]

\* DataFrame.fillna(0)
FillNa0(rs) == [j \in 1..Len(rs) |-> IF rs[j] = NaNf THEN Zero ELSE rs[j]]

\* QLD_1sigma_alert.load_data: returns with NaN filled by 0; a one-row
\* dummy frame of 0.0 when fewer than two rows came back
load_data_QLD(raw) ==
    LET daily_return == FillNa0(PctChangeRows(raw))
    IN  IF Len(daily_return) < 2
        THEN [close |-> <<0>>, daily_return |-> <<Zero>>]
        ELSE [close |-> raw, daily_return |-> daily_return]

\* SOXL_1sigma_alert.load_data: returns as they are; a one-row dummy
\* frame of NaN when fewer than two rows came back
load_data_SOXL(raw) ==
    LET daily_return == PctChangeRows(raw)
    IN  IF Len(daily_return) < 2
        THEN [close |-> <<NaN>>, daily_return |-> <<NaNf>>]
        ELSE [close |-> raw, daily_return |-> daily_return]

\* --------------------------------------------- calc_sigma_and_trades
\* returns[t].dropna(), each return kept with the row (date) it belongs to
RECURSIVE DropNaRows(_, _)
DropNaRows(rs, row) ==
    IF rs = <<>> THEN <<>>
    ELSE IF Head(rs) = NaNf THEN DropNaRows(Tail(rs), row + 1)
         ELSE <<[row |-> row, r |-> Head(rs)]>> \o DropNaRows(Tail(rs), row + 1)

\* Series.tail(n)
TailN(s, n) == IF Len(s) <= n THEN s ELSE SubSeq(s, Len(s) - n + 1, Len(s))

Rs(rr) == [j \in 1..Len(rr) |-> rr[j].r]

\* rr.rolling(window, min_periods).std(): at row j the std of the last
\* `window` returns up to and including row j
rolling_std(rr, window, min_periods) ==
    [j \in 1..Len(rr) |->
        LET win == SubSeq(Rs(rr), Max(1, j - window + 1), j)
        IN  IF Len(win) < min_periods THEN NaNf ELSE StdSq(win)]

\* ret <= -vol for a return r and a std given by its square
LeqMinusVol(r, sq) ==
    /\ r.num <= 0
    /\ r.num * r.num * sq.den >= sq.num * r.den * r.den

\* int(round(n/d)) for n, d > 0: Python rounds a half to the even integer
RoundHalfEven(n, d) ==
    LET q == n \div d
        rem == n % d
    IN  IF 2 * rem < d THEN q
        ELSE IF 2 * rem > d THEN q + 1
             ELSE IF q % 2 = 0 THEN q ELSE q + 1

\* the event count and annual rate over the last `tail` rows of rr
event_rate(rr, vol_roll, tail) ==
    LET n == Len(rr)
        first == IF n <= tail THEN 1 ELSE n - tail + 1
        rows == first..n
        mask == {j \in rows : /\ rr[j].r # NaNf
                              /\ vol_roll[j] # NaNf
                              /\ vol_roll[j].num > 0
                              /\ LeqMinusVol(rr[j].r, vol_roll[j])}
        total_events == Cardinality(mask)
        days == IF n - first + 1 > 1 THEN DateOf(rr[n].row) - DateOf(rr[first].row) ELSE 0
    IN  [total_events |-> total_events,
         first_row |-> IF n = 0 THEN 0 ELSE rr[first].row,
         days |-> days,
         trades |-> IF days > 0
                    THEN RoundHalfEven(total_events * 36525, days * 100)
                    ELSE 0]

\* QLD_1sigma_alert.calc_sigma_and_trades for the one ticker
calc_sigma_and_trades_QLD(returns) ==
    LET rr == DropNaRows(returns, 1)
        vol_roll == rolling_std(rr, W, MinPeriods)
        rate == event_rate(rr, vol_roll, 5 * W)
    IN  IF returns = <<>>
        THEN [sigma |-> NaNf, trades |-> 0, vol_roll |-> <<>>, rows |-> <<>>,
              total_events |-> 0, first_row |-> 0, days |-> 0]
        ELSE [sigma |-> StdSq(Rs(TailN(rr, W))), trades |-> rate.trades,
              vol_roll |-> vol_roll, rows |-> [j \in 1..Len(rr) |-> rr[j].row],
              total_events |-> rate.total_events, first_row |-> rate.first_row,
              days |-> rate.days]

\* SOXL_1sigma_alert.calc_sigma_and_trades for the one ticker
calc_sigma_and_trades_SOXL(returns) ==
    LET rr == DropNaRows(returns, 1)
        vol_roll == rolling_std(rr, W, MinPeriods)
        rate == event_rate(rr, vol_roll, W)
    IN  IF rr = <<>>
        THEN [sigma |-> NaNf, trades |-> 0, vol_roll |-> <<>>, rows |-> <<>>,
              total_events |-> 0, first_row |-> 0, days |-> 0]
        ELSE [sigma |-> vol_roll[Len(vol_roll)], trades |-> rate.trades,
              vol_roll |-> vol_roll, rows |-> [j \in 1..Len(rr) |-> rr[j].row],
              total_events |-> rate.total_events, first_row |-> rate.first_row,
              days |-> rate.days]

load_data_1s(v, raw) == IF v = "QLD" THEN load_data_QLD(raw) ELSE load_data_SOXL(raw)

calc_sigma_and_trades(v, returns) ==
    IF v = "QLD" THEN calc_sigma_and_trades_QLD(returns)
    ELSE calc_sigma_and_trades_SOXL(returns)

\* ------------------------------------------------ build_alert_messages
\* a value that is present, as opposed to None / NaN
Some(x) == [v |-> x]

IlocLast(s) == s[Len(s)]

TICKERS(v) ==
    CASE v = "QLD" -> <<"QLD">>
      [] v = "SOXL" -> <<"SOXL">>
      [] v = "TQQQ_SOXL" -> <<"TQQQ", "SOXL">>
      [] v = "TQQQ_SSO_QLD" -> <<"TQQQ", "SSO", "QLD">>

\* the three kinds of entry a ticker can get in the report
Missing(symbol) ==
    [symbol |-> symbol, kind |-> "missing", sigma |-> Unset, threshold |-> None,
     prev_close |-> None, current_price |-> None, ret_today |-> None,
     condition_met |-> None, tp |-> None, trades |-> None]

Unavailable(symbol, sg) ==
    [symbol |-> symbol, kind |-> "unavailable", sigma |-> sg, threshold |-> None,
     prev_close |-> None, current_price |-> None, ret_today |-> None,
     condition_met |-> None, tp |-> None, trades |-> None]

\* get_prev_and_current_price of the scripts that read both from the series
get_prev_and_current_price(close_col) ==
    LET s == DropNa(close_col)
    IN  IF Len(s) < 2 THEN [prev_close |-> None, current_price |-> None]
        ELSE [prev_close |-> Some(s[Len(s) - 1]), current_price |-> Some(s[Len(s)])]

\* one iteration of the loop of TQQQ_SOXL_2sigma_alert.build_alert_messages
entry_TQQQ_SOXL(symbol, close_col) ==
    LET pq == get_prev_and_current_price(close_col)
        sg == compute_sigma(close_col, W)
        optimal_tp == optimize_tp_fixed_pct_for_symbol(close_col, DefaultGrid, W,
                                                       ForwardDays, FEES)
    IN  IF DropNa(close_col) = <<>> THEN Missing(symbol)
        ELSE IF pq.prev_close = None \/ pq.current_price = None \/ sg = None
             THEN Unavailable(symbol, sg)
             ELSE [symbol |-> symbol, kind |-> "report", sigma |-> sg,
                   threshold |-> [base |-> pq.prev_close.v, k |-> 2],
                   prev_close |-> pq.prev_close, current_price |-> pq.current_price,
                   ret_today |-> Rat(pq.current_price.v - pq.prev_close.v, pq.prev_close.v),
                   condition_met |->
                       Some(LeqThreshold(pq.current_price.v, pq.prev_close.v, 2, sg)),
                   tp |-> optimal_tp, trades |-> None]

\* SOXL_1sigma_alert.build_alert_messages for its one ticker
entry_SOXL(symbol, raw) ==
    LET data == load_data_SOXL(raw)
        st == calc_sigma_and_trades_SOXL(data.daily_return)
        pq == get_prev_and_current_price(data.close)
        ret_today == Rat(pq.current_price.v - pq.prev_close.v, pq.prev_close.v)
    IN  IF DropNa(data.close) = <<>> THEN Missing(symbol)
        ELSE IF pq.prev_close = None \/ pq.current_price = None \/ st.sigma = NaNf
             THEN Unavailable(symbol, st.sigma)
             ELSE [symbol |-> symbol, kind |-> "report", sigma |-> st.sigma,
                   threshold |-> [base |-> pq.prev_close.v, k |-> 1],
                   prev_close |-> pq.prev_close, current_price |-> pq.current_price,
                   ret_today |-> ret_today,
                   condition_met |-> Some(LeqMinusVol(ret_today, st.sigma)),
                   tp |-> [k_fixed |-> K_FIXED_SOXL], trades |-> Some(st.trades)]

\* QLD_1sigma_alert.build_alert_messages for its one ticker; a comparison
\* with a NaN sigma is False, arithmetic on it gives NaN
entry_QLD(symbol, raw) ==
    LET data == load_data_QLD(raw)
        st == calc_sigma_and_trades_QLD(data.daily_return)
        ret_today == IlocLast(data.daily_return)
        current_price == IlocLast(data.close)
    IN  IF data.daily_return = <<>> THEN Missing(symbol)
        ELSE [symbol |-> symbol, kind |-> "report", sigma |-> st.sigma,
              threshold |-> [base |-> current_price, k |-> 1],
              prev_close |-> None, current_price |-> Some(current_price),
              ret_today |-> ret_today,
              condition_met |->
                  Some(IF st.sigma = NaNf THEN FALSE ELSE LeqMinusVol(ret_today, st.sigma)),
              tp |-> [k_fixed |-> K_FIXED_QLD], trades |-> Some(st.trades)]

entry_of(v, symbol, raw) ==
    CASE v = "QLD" -> entry_QLD(symbol, raw)
      [] v = "SOXL" -> entry_SOXL(symbol, raw)
      [] v = "TQQQ_SOXL" -> entry_TQQQ_SOXL(symbol, raw)

\* ------------------------------------------ TQQQ_SSO_QLD_2sigma_alert
\* is_us_market_open_now: the New York time of day, in minutes after
\* midnight, lies between 09:30 and 16:00, both included
is_us_market_open_now(now_et) == now_et >= 9 * 60 + 30 /\ now_et <= 16 * 60

\* `x is not None and np.isfinite(x) and x > 0` of an answer of the provider
IsUsable(x) == x \notin {None, NaNf} /\ x.v > 0

\* get_prev_close: fast_info.previous_close when usable (an exception of the
\* provider is the answer None), else the last close of the series
get_prev_close(previous_close, close_col) ==
    IF IsUsable(previous_close) THEN previous_close
    ELSE LET s == DropNa(close_col)
         IN  IF Len(s) >= 1 THEN Some(IlocLast(s)) ELSE None

\* the loop over "Close", "Adj Close", "Open" of the last one-minute bar:
\* last_row lists the non-null values in that order, the first positive wins
RECURSIVE first_positive(_)
first_positive(last_row) ==
    IF last_row = <<>> THEN None
    ELSE IF Head(last_row) > 0 THEN Some(Head(last_row))
         ELSE first_positive(Tail(last_row))

\* get_current_price_live: fast_info.last_price when usable, else the last
\* one-minute bar of today's history, else None
get_current_price_live(last_price, hist) ==
    IF IsUsable(last_price) THEN last_price ELSE first_positive(hist)

\* get_prev_and_current_price with the market check left out
get_prev_and_current_price_always_live(answers, close_col, now_et) ==
    LET prev_close == get_prev_close(answers.previous_close, close_col)
        live == get_current_price_live(answers.last_price, answers.hist)
    IN  IF prev_close = None THEN [prev_close |-> None, current_price |-> None]
        ELSE [prev_close |-> prev_close,
              current_price |-> IF live = None THEN prev_close ELSE live]

\* get_prev_and_current_price of TQQQ_SSO_QLD_2sigma_alert
get_prev_and_current_price_TQQQ_SSO_QLD(answers, close_col, now_et) ==
    LET prev_close == get_prev_close(answers.previous_close, close_col)
        live == get_current_price_live(answers.last_price, answers.hist)
    IN  IF prev_close = None THEN [prev_close |-> None, current_price |-> None]
        ELSE IF is_us_market_open_now(now_et)
             THEN [prev_close |-> prev_close,
                   current_price |-> IF live = None THEN prev_close ELSE live]
             ELSE [prev_close |-> prev_close, current_price |-> prev_close]

\* one iteration of the loop of TQQQ_SSO_QLD_2sigma_alert.build_alert_messages;
\* an empty column is passed over (`pass`) and handled like any other
entry_TQQQ_SSO_QLD(symbol, close_col, answers, now_et) ==
    LET pq == get_prev_and_current_price_TQQQ_SSO_QLD(answers, close_col, now_et)
        sg == compute_sigma(close_col, W)
    IN  IF pq.prev_close = None \/ pq.current_price = None \/ sg = None
        THEN Unavailable(symbol, sg)
        ELSE [symbol |-> symbol, kind |-> "report", sigma |-> sg,
              threshold |-> [base |-> pq.prev_close.v, k |-> 2],
              prev_close |-> pq.prev_close, current_price |-> pq.current_price,
              ret_today |-> Rat(pq.current_price.v - pq.prev_close.v, pq.prev_close.v),
              condition_met |->
                  Some(LeqThreshold(pq.current_price.v, pq.prev_close.v, 2, sg)),
              tp |-> None, trades |-> None]

\* ---------------------------------------------------------------- state
VARIABLES
    pc,         \* position of the run / of the function under check
    col,        \* a column of closes as downloaded (NaN = 0)
    sigma,      \* result of compute_sigma
    alt,        \* col with one row replaced (a second input to compare with)
    changed,    \* 0-based row at which alt differs from col; -1 if none
    events,     \* result of _find_signals_and_forward_path on col
    altEvents,  \* result of _find_signals_and_forward_path on alt
    tp_grid,    \* the grid handed to the optimizer
    best_tp,    \* result of the optimizer
    variant,    \* which script runs: "QLD", "SOXL", "TQQQ_SOXL"
    stat,       \* result of calc_sigma_and_trades on the download col
    altStat,    \* result of calc_sigma_and_trades on the download alt
    webhook,    \* WEBHOOK_URL is set
    messages,   \* the entries appended so far: symbol and kind of each
    had_data,   \* for each entry of Spec, whether the ticker's column held a close
    report,     \* the entry of the current iteration, with all its fields
    posts,      \* the requests.post calls made: content and outcome
    provider,   \* what yfinance answers for the ticker: previous_close, last_price, hist
    now         \* New York time of day, in minutes, read by is_us_market_open_now

runvars == <<webhook, messages, had_data, report, posts>>
livevars == <<provider, now>>
vars == <<pc, variant, col, sigma, alt, changed, events, altEvents, tp_grid, best_tp,
          stat, altStat, runvars, livevars>>

\* every column of at most MaxRaw rows; a row is a close or NaN
RECURSIVE SeqsUpTo(_, _)
SeqsUpTo(S, n) ==
    IF n = 0 THEN {<<>>}
    ELSE LET shorter == SeqsUpTo(S, n - 1)
         IN  shorter \cup {Append(s, x) : s \in {t \in shorter : Len(t) = n - 1}, x \in S}

Columns == SeqsUpTo(PriceSet \cup {NaN}, MaxRaw)

\* ------------------------------------------- compute_sigma on any column
InitSigma ==
    /\ pc = "start"
    /\ col \in Columns
    /\ sigma = Unset
    /\ alt = col
    /\ changed = -1
    /\ events = <<>>
    /\ altEvents = <<>>
    /\ tp_grid = <<>>
    /\ best_tp = Unset
    /\ variant = "TQQQ_SOXL"
    /\ stat = Unset
    /\ altStat = Unset
    /\ webhook = FALSE
    /\ messages = <<>>
    /\ had_data = <<>>
    /\ report = Unset
    /\ posts = <<>>
    /\ provider = Unset
    /\ now = Unset

ComputeSigma ==
    /\ pc = "start"
    /\ sigma' = compute_sigma(col, W)
    /\ pc' = "done"
    /\ UNCHANGED <<col, alt, changed, events, altEvents, tp_grid, best_tp, variant, stat, altStat,
                 runvars>>
    /\ UNCHANGED livevars

NextSigma == ComputeSigma

SpecSigma == InitSigma /\ [][NextSigma]_vars

\* C1: in point-in-time mode compute_sigma returns None, and no number, for
\* every column that yields fewer than W+1 returns, the empty one included
C1_ShortSeriesUndefined ==
    (pc = "done" /\ Len(PctChange(DropNa(col))) < W + 1) => sigma = None

C1_Witness ==
    /\ pc = "done"
    /\ Len(PctChange(DropNa(col))) = W
    /\ sigma = None

\* -------------------------- _find_signals_and_forward_path on two inputs
\* NaN-free columns, as Series.dropna() leaves them
CleanColumns == SeqsUpTo(PriceSet, MaxLen)
EventColumns == SeqsUpTo(PriceSet, MaxLen - 1)

InitEvents ==
    /\ pc = "start"
    /\ col \in EventColumns
    /\ alt = col
    /\ changed = -1
    /\ sigma = Unset
    /\ events = <<>>
    /\ altEvents = <<>>
    /\ tp_grid = <<>>
    /\ best_tp = Unset
    /\ variant = "TQQQ_SOXL"
    /\ stat = Unset
    /\ altStat = Unset
    /\ webhook = FALSE
    /\ messages = <<>>
    /\ had_data = <<>>
    /\ report = Unset
    /\ posts = <<>>
    /\ provider = Unset
    /\ now = Unset

\* a second series that differs from col in the close of one row that the
\* loop visits as "today" or that follows such a row
Perturb ==
    /\ pc = "start"
    /\ \E p \in (W + 2)..Len(col) :
          \E v \in PriceSet \ {col[p]} :
              /\ alt' = [col EXCEPT ![p] = v]
              /\ changed' = p - 1
    /\ pc' = "perturbed"
    /\ UNCHANGED <<col, sigma, events, altEvents, tp_grid, best_tp, variant, stat, altStat,
                 runvars>>
    /\ UNCHANGED livevars

FindSignals ==
    /\ pc \in {"start", "perturbed"}
    /\ events' = find_signals_and_forward_path(col, W, ForwardDays)
    /\ altEvents' = find_signals_and_forward_path(alt, W, ForwardDays)
    /\ pc' = "done"
    /\ UNCHANGED <<col, alt, changed, sigma, tp_grid, best_tp, variant, stat, altStat,
                 runvars>>
    /\ UNCHANGED livevars

NextEvents == Perturb \/ FindSignals

SpecEvents == InitEvents /\ [][NextEvents]_vars

\* the sample variance of the W returns between the W+1 closes that
\* precede the 0-based row i: closes i-W-1 .. i-1
VarBefore(s, i) == StdSq(PctChange(SubSeq(s, i - W, i)))

\* row i is a trigger day of s: W+1 <= i <= len-2, the sigma of the closes
\* before i is defined and positive, close[i] <= close[i-1] * (1 - 2*sigma)
IsTrigger(s, i) ==
    /\ i >= W + 1
    /\ i <= Len(s) - 2
    /\ VarBefore(s, i) # NaNf
    /\ VarBefore(s, i).num > 0
    /\ LeqThreshold(At(s, i), At(s, i - 1), 2, VarBefore(s, i))

EventRows(evs) == {evs[n].date : n \in 1..Len(evs)}

\* C3: an event is emitted at row i exactly for the trigger days i in
\* W+1..len-2, its sigma is that of the closes
\* strictly before i, and replacing the close of row i or of a later row
\* leaves the sigma of the event at i unchanged
C3_EventsExactNoLookAhead ==
    pc = "done" =>
        /\ EventRows(events) = {i \in 0..(Len(col) - 1) : IsTrigger(col, i)}
        /\ \A n \in 1..Len(events) :
              /\ events[n].sigma = VarBefore(col, events[n].date)
              /\ changed >= events[n].date
                    => events[n].sigma = VarBefore(alt, events[n].date)
        /\ \A n \in 1..Len(events), m \in 1..Len(altEvents) :
              (events[n].date = altEvents[m].date /\ changed >= events[n].date)
                  => events[n].sigma = altEvents[m].sigma

\* an event whose own close is the row replaced in the second series
C3_Witness ==
    /\ pc = "done"
    /\ \E n \in 1..Len(events) : changed = events[n].date

\* an event of both series, a later row replaced: the forward paths differ
C3_WitnessLater ==
    /\ pc = "done"
    /\ \E n \in 1..Len(events), m \in 1..Len(altEvents) :
          /\ events[n].date = altEvents[m].date
          /\ changed > events[n].date
          /\ events[n].forward_high # altEvents[m].forward_high

\* ------------------------------------ the grid search on any event set
TpSet == {100, 50000, 100000}
PathSet == SeqsUpTo({3, 4}, MaxPath) \ {<<>>}
EventSet == [entry : {2, 3}, forward_high : PathSet]

InitTP ==
    /\ pc = "start"
    /\ events \in SeqsUpTo(EventSet, MaxEvents) \ {<<>>}
    /\ tp_grid \in SeqsUpTo(TpSet, MaxGrid)
    /\ best_tp = Unset
    /\ col = <<>>
    /\ alt = <<>>
    /\ changed = -1
    /\ sigma = Unset
    /\ altEvents = <<>>
    /\ variant = "TQQQ_SOXL"
    /\ stat = Unset
    /\ altStat = Unset
    /\ webhook = FALSE
    /\ messages = <<>>
    /\ had_data = <<>>
    /\ report = Unset
    /\ posts = <<>>
    /\ provider = Unset
    /\ now = Unset

\* lines 92-107 of the optimizer, on the events and the grid given
GridSearch ==
    /\ pc = "start"
    /\ best_tp' = grid_search(tp_grid, events, FEES, None, NegInf)
    /\ pc' = "done"
    /\ UNCHANGED <<col, alt, changed, sigma, events, altEvents, tp_grid, variant, stat, altStat,
                 runvars>>
    /\ UNCHANGED livevars

NextTP == GridSearch

SpecTP == InitTP /\ [][NextTP]_vars

\* aggregate net return of a candidate: tp - 2*fees for each event one of
\* whose forward prices reaches entry * (1 + tp), 0 for the others
NetReturn(evs, tp) ==
    SumSeq([n \in 1..Len(evs) |->
        IF \E k \in 1..Len(evs[n].forward_high) :
               evs[n].forward_high[k] * 100000 >= evs[n].entry * (100000 + tp)
        THEN tp - 2 * FEES ELSE 0])

\* C4: for a non-empty event set the optimizer returns the grid candidate of
\* maximal aggregate net return, the first such candidate in grid order
C4_FirstMaximalCandidate ==
    (pc = "done" /\ tp_grid # <<>>) =>
        \E k \in 1..Len(tp_grid) :
            /\ best_tp = [tp |-> tp_grid[k]]
            /\ \A j \in 1..Len(tp_grid) :
                  NetReturn(events, tp_grid[j]) <= NetReturn(events, tp_grid[k])
            /\ \A j \in 1..(k - 1) :
                  NetReturn(events, tp_grid[j]) < NetReturn(events, tp_grid[k])

\* two different candidates tie for the maximum and one candidate that hits
\* fewer events beats one that hits more
C4_Witness ==
    /\ pc = "done"
    /\ Len(tp_grid) = 2
    /\ tp_grid[1] # tp_grid[2]
    /\ NetReturn(events, tp_grid[1]) = NetReturn(events, tp_grid[2])
    /\ best_tp = [tp |-> tp_grid[1]]

C4_WitnessTradeOff ==
    /\ pc = "done"
    /\ Len(tp_grid) = 2
    /\ Len(events) = 2
    /\ tp_grid[1] < tp_grid[2]
    /\ Hit(events[1], tp_grid[1]) /\ Hit(events[2], tp_grid[1])
    /\ ~Hit(events[1], tp_grid[2]) /\ Hit(events[2], tp_grid[2])
    /\ best_tp = [tp |-> tp_grid[2]]

\* ------------------------------------------ the optimizer on any column
InitOpt ==
    /\ pc = "start"
    /\ col \in CleanColumns
    /\ alt = col
    /\ changed = -1
    /\ sigma = Unset
    /\ events = <<>>
    /\ altEvents = <<>>
    /\ tp_grid = DefaultGrid
    /\ best_tp = Unset
    /\ variant = "TQQQ_SOXL"
    /\ stat = Unset
    /\ altStat = Unset
    /\ webhook = FALSE
    /\ messages = <<>>
    /\ had_data = <<>>
    /\ report = Unset
    /\ posts = <<>>
    /\ provider = Unset
    /\ now = Unset

OptimizeTp ==
    /\ pc = "start"
    /\ best_tp' = optimize_tp_fixed_pct_for_symbol(col, tp_grid, W, ForwardDays, FEES)
    /\ pc' = "done"
    /\ UNCHANGED <<col, alt, changed, sigma, events, altEvents, tp_grid, variant, stat, altStat,
                 runvars>>
    /\ UNCHANGED livevars

NextOpt == OptimizeTp

SpecOpt == InitOpt /\ [][NextOpt]_vars

\* the closes of the trailing HorizonDays calendar days
Trailing(c) ==
    LET n == Len(c)
    IN  DropNa([j \in 1..n |-> IF DateOf(j) > DateOf(n) - HorizonDays THEN c[j] ELSE NaN])

\* C5: the optimizer returns None when the trailing series has fewer than
\* W + Margin closes or holds no trigger day; it returns a TP only when the
\* series has at least W + Margin closes and at least one trigger day
C5_UndefinedWhenShortOrNoEvent ==
    pc = "done" =>
        /\ (Len(Trailing(col)) < W + Margin
            \/ ~\E i \in 0..(Len(Trailing(col)) - 1) : IsTrigger(Trailing(col), i))
              => best_tp = None
        /\ best_tp # None =>
              /\ Len(Trailing(col)) >= W + Margin
              /\ \E i \in 0..(Len(Trailing(col)) - 1) : IsTrigger(Trailing(col), i)
              /\ \E k \in 1..Len(tp_grid) : best_tp = [tp |-> tp_grid[k]]

\* a series too short that holds a trigger day, and so gets None
C5_Witness ==
    /\ pc = "done"
    /\ Len(Trailing(col)) < W + Margin
    /\ \E i \in 0..(Len(Trailing(col)) - 1) : IsTrigger(Trailing(col), i)
    /\ best_tp = None

\* a series cut by the horizon, long enough and with a trigger day: a TP
C5_WitnessTp ==
    /\ pc = "done"
    /\ Len(Trailing(col)) < Len(col)
    /\ best_tp # None

\* ---------------------- calc_sigma_and_trades on two downloads (1-sigma)
InitFreq ==
    /\ pc = "start"
    /\ variant \in {"QLD", "SOXL"}
    /\ col \in SeqsUpTo(PriceSet, MaxRaw)
    /\ alt = col
    /\ changed = -1
    /\ sigma = Unset
    /\ events = <<>>
    /\ altEvents = <<>>
    /\ tp_grid = <<>>
    /\ best_tp = Unset
    /\ stat = Unset
    /\ altStat = Unset
    /\ webhook = FALSE
    /\ messages = <<>>
    /\ had_data = <<>>
    /\ report = Unset
    /\ posts = <<>>
    /\ provider = Unset
    /\ now = Unset

\* a second download that differs from col in the close of one row
PerturbDay ==
    /\ pc = "start"
    /\ \E p \in 1..Len(col) :
          \E v \in PriceSet \ {col[p]} :
              /\ alt' = [col EXCEPT ![p] = v]
              /\ changed' = p - 1
    /\ pc' = "perturbed"
    /\ UNCHANGED <<col, sigma, events, altEvents, tp_grid, best_tp, variant, stat, altStat,
                 runvars>>
    /\ UNCHANGED livevars

CalcSigmaAndTrades ==
    /\ pc \in {"start", "perturbed"}
    /\ stat' = calc_sigma_and_trades(variant, load_data_1s(variant, col).daily_return)
    /\ altStat' = calc_sigma_and_trades(variant, load_data_1s(variant, alt).daily_return)
    /\ pc' = "done"
    /\ UNCHANGED <<col, alt, changed, sigma, events, altEvents, tp_grid, best_tp, variant,
                 runvars>>
    /\ UNCHANGED livevars

NextFreq == PerturbDay \/ CalcSigmaAndTrades

SpecFreq == InitFreq /\ [][NextFreq]_vars

DefinedRows(st) ==
    {st.rows[j] : j \in {k \in 1..Len(st.rows) :
                            st.rows[k] >= st.first_row /\ st.vol_roll[k] # NaNf}}

SetMin(S) == CHOOSE x \in S : \A y \in S : x <= y
SetMax(S) == CHOOSE x \in S : \A y \in S : x >= y

\* C7: the elapsed-time denominator spans only the days whose inputs are
\* defined: from the first to the last day with a defined rolling sigma
C7_DenominatorSpansDefinedDays ==
    pc = "done" =>
        stat.days = IF Cardinality(DefinedRows(stat)) > 1
                    THEN DateOf(SetMax(DefinedRows(stat))) - DateOf(SetMin(DefinedRows(stat)))
                    ELSE 0

\* ------------------------------------------------------------ the run
\* The frame `close` is downloaded once, at import, and never written; the
\* iteration for a ticker reads that ticker's column only.  The column is
\* drawn when its iteration reads it, and col, sigma and report hold the
\* locals of the current iteration; messages keeps symbol and kind of
\* every entry.
Init ==
    /\ pc = "main"
    /\ variant \in {"QLD", "SOXL", "TQQQ_SOXL"}
    /\ webhook \in BOOLEAN
    /\ messages = <<>>
    /\ had_data = <<>>
    /\ report = Unset
    /\ posts = <<>>
    /\ col = <<>>
    /\ alt = <<>>
    /\ changed = -1
    /\ sigma = Unset
    /\ events = <<>>
    /\ altEvents = <<>>
    /\ tp_grid = <<>>
    /\ best_tp = Unset
    /\ stat = Unset
    /\ altStat = Unset
    /\ provider = Unset
    /\ now = Unset

\* the body of `for symbol in TICKERS` in build_alert_messages, up to the
\* append of the ticker's entry
BuildTicker ==
    /\ pc = "main"
    /\ Len(messages) < Len(TICKERS(variant))
    /\ \E raw \in EventColumns :
          LET symbol == TICKERS(variant)[Len(messages) + 1]
              e == entry_of(variant, symbol, raw)
          IN  /\ col' = raw
              /\ report' = e
              /\ sigma' = e.sigma
              /\ messages' = Append(messages, [symbol |-> symbol, kind |-> e.kind])
              /\ had_data' = Append(had_data, DropNa(raw) # <<>>)
    /\ pc' = "appended"
    /\ UNCHANGED <<variant, webhook, posts, alt, changed, events, altEvents,
                   tp_grid, best_tp, stat, altStat>>
    /\ UNCHANGED livevars

\* the end of the loop body: on to the next ticker, or, after the last one,
\* return "\n\n".join(messages) and print(final_message) in __main__; the
\* locals of the iteration are gone
LoopEnd ==
    /\ pc = "appended"
    /\ pc' = IF Len(messages) < Len(TICKERS(variant)) THEN "main" ELSE "composed"
    /\ col' = <<>>
    /\ report' = Unset
    /\ sigma' = Unset
    /\ UNCHANGED <<variant, webhook, messages, had_data, posts, alt, changed, events,
                   altEvents, tp_grid, best_tp, stat, altStat>>
    /\ provider' = Unset
    /\ now' = Unset

\* send_discord_message that posts once more after a failed post
send_discord_message_retry(content, next) ==
    IF ~webhook
    THEN /\ pc' = "aborted"
         /\ UNCHANGED posts
    ELSE /\ \E outcome \in {"ok", "status", "exception"}, again \in {"ok", "status", "exception"} :
               posts' = IF outcome = "ok"
                        THEN Append(posts, [content |-> content, outcome |-> outcome])
                        ELSE posts \o <<[content |-> content, outcome |-> outcome],
                                        [content |-> content, outcome |-> again]>>
         /\ pc' = next

\* send_discord_message(content): RuntimeError without a webhook; else one
\* post whose failure (status or exception) is printed
send_discord_message(content, next) ==
    IF ~webhook
    THEN /\ pc' = "aborted"
         /\ UNCHANGED posts
    ELSE /\ \E outcome \in {"ok", "status", "exception"} :
               posts' = Append(posts, [content |-> content, outcome |-> outcome])
         /\ pc' = next

\* send_discord_message(final_message) in __main__
Send ==
    /\ pc = "composed"
    /\ send_discord_message("report", "sent")
    /\ UNCHANGED <<variant, webhook, messages, had_data, report, col, sigma, alt,
                   changed, events, altEvents, tp_grid, best_tp, stat, altStat>>
    /\ UNCHANGED livevars

\* monthly_ping() in __main__: a ping on the first day of the month; the
\* call is commented out in QLD_1sigma_alert
MonthlyPing ==
    /\ pc = "sent"
    /\ \/ /\ variant # "QLD"
          /\ send_discord_message("ping", "done")
       \/ /\ pc' = "done"
          /\ UNCHANGED posts
    /\ UNCHANGED <<variant, webhook, messages, had_data, report, col, sigma, alt,
                   changed, events, altEvents, tp_grid, best_tp, stat, altStat>>
    /\ UNCHANGED livevars

Next == BuildTicker \/ LoopEnd \/ Send \/ MonthlyPing

Spec == Init /\ [][Next]_vars

\* the sigma multiple of each script
KOf(v) == IF v = "TQQQ_SOXL" THEN 2 ELSE 1

\* C2: for a ticker with a defined sigma the reported threshold price is
\* prev_close * (1 - k*sigma) for the script's k, and condition_met is true
\* exactly when current_price <= that threshold price
C2_ThresholdFromPrevClose ==
    (pc = "appended" /\ report.kind = "report" /\ report.sigma \notin {None, NaNf}) =>
        LET s == DropNa(col)
            prev_close == s[Len(s) - 1]
            current_price == s[Len(s)]
        IN  /\ report.threshold = [base |-> prev_close, k |-> KOf(variant)]
            /\ report.condition_met =
                  Some(LeqThreshold(current_price, report.threshold.base,
                                    report.threshold.k, report.sigma))

\* C8: the report holds one entry per ticker, in configured order; a ticker
\* whose series is empty gets an explicit data-unavailable entry (not a
\* report), and a ticker with a full series gets its report whatever the
\* other tickers' data
C8_OneEntryPerTickerIsolated ==
    /\ pc \in {"composed", "sent", "done", "aborted"}
          => Len(messages) = Len(TICKERS(variant))
    /\ \A i \in 1..Len(messages) :
          /\ messages[i].symbol = TICKERS(variant)[i]
          /\ ~had_data[i] => messages[i].kind \in {"missing", "unavailable"}
    /\ (pc = "appended" /\ Len(col) >= W + 2) => report.kind = "report"

\* C9: when the sigma of a ticker is undefined (None or NaN) the ticker gets
\* an unavailable entry, and no threshold price, condition_met or TP is
\* computed from the undefined sigma
C9_UndefinedSigmaIsUnavailable ==
    (pc = "appended" /\ sigma \in {None, NaNf}) =>
        /\ report.kind = "unavailable"
        /\ report.threshold = None
        /\ report.condition_met = None
        /\ report.tp = None

\* C10: a run is aborted only before any per-ticker work: no abort once an
\* entry has been appended or the report composed
C10_AbortOnlyBeforeTickerWork ==
    pc = "aborted" => messages = <<>>

\* ------------------------------- the run of TQQQ_SSO_QLD_2sigma_alert
\* The script asks the provider, per ticker, for fast_info.previous_close,
\* fast_info.last_price and the last one-minute bar, and reads the clock in
\* is_us_market_open_now.  Closes are drawn from two prices, answers from
\* Answers (0 for an answer that is not positive), the clock from TimeSet.
LiveColumns == SeqsUpTo(PriceSet \ {2}, MaxRaw - 1)

Answers ==
    [previous_close : {None, Some(0), Some(3), Some(4)},
     last_price : {None, Some(2), Some(4)},
     hist : {<<>>, <<0, 2>>}]

\* one minute before the open, the open, the close, one minute after it
TimeSet == {9 * 60 + 29, 9 * 60 + 30, 16 * 60, 16 * 60 + 1}

InitLive ==
    /\ pc = "main"
    /\ variant = "TQQQ_SSO_QLD"
    /\ webhook \in BOOLEAN
    /\ messages = <<>>
    /\ had_data = <<>>
    /\ report = Unset
    /\ posts = <<>>
    /\ col = <<>>
    /\ alt = <<>>
    /\ changed = -1
    /\ sigma = Unset
    /\ events = <<>>
    /\ altEvents = <<>>
    /\ tp_grid = <<>>
    /\ best_tp = Unset
    /\ stat = Unset
    /\ altStat = Unset
    /\ provider = Unset
    /\ now = Unset

\* the body of `for symbol in TICKERS` in build_alert_messages, up to the
\* append of the ticker's entry
BuildTickerLive ==
    /\ pc = "main"
    /\ Len(messages) < Len(TICKERS(variant))
    /\ \E raw \in LiveColumns, answers \in Answers, now_et \in TimeSet :
          LET symbol == TICKERS(variant)[Len(messages) + 1]
              e == entry_TQQQ_SSO_QLD(symbol, raw, answers, now_et)
          IN  /\ col' = raw
              /\ provider' = answers
              /\ now' = now_et
              /\ report' = e
              /\ sigma' = e.sigma
              /\ messages' = Append(messages, [symbol |-> symbol, kind |-> e.kind])
    /\ pc' = "appended"
    /\ UNCHANGED <<variant, webhook, posts, had_data, alt, changed, events, altEvents,
                   tp_grid, best_tp, stat, altStat>>

\* the same iteration run again at another time of day, on the same series
\* and the same answers of the provider: its entry replaces the first one
Rerun ==
    /\ pc = "appended"
    /\ variant = "TQQQ_SSO_QLD"
    /\ \E now_et \in TimeSet \ {now} :
          LET symbol == TICKERS(variant)[Len(messages)]
              e == entry_TQQQ_SSO_QLD(symbol, col, provider, now_et)
          IN  /\ now' = now_et
              /\ report' = e
              /\ sigma' = e.sigma
              /\ messages' = [messages EXCEPT ![Len(messages)] =
                                 [symbol |-> symbol, kind |-> e.kind]]
    /\ UNCHANGED <<pc, variant, webhook, posts, had_data, col, provider, alt, changed,
                   events, altEvents, tp_grid, best_tp, stat, altStat>>

NextLive == BuildTickerLive \/ Rerun \/ LoopEnd \/ Send \/ MonthlyPing

SpecLive == InitLive /\ [][NextLive]_vars

\* the numeric fields of an entry
NumericFields(r) ==
    <<r.sigma, r.threshold, r.current_price, r.prev_close, r.ret_today, r.condition_met>>

\* C11: two runs on the same series and the same answers of the provider
\* give the same numeric fields (sigma, threshold price, current price,
\* previous close, return of the day, condition met), whatever the time of
\* day of each run
C11_NoTimeOfDayDependence ==
    [][(pc = "appended" /\ pc' = "appended" /\ col' = col /\ provider' = provider)
          => NumericFields(report') = NumericFields(report)]_vars

\* the posts, in order, that carried the composed report
ReportPosts == SelectSeq(posts, LAMBDA p : p.content = "report")

\* a post that failed: a status other than 200/204, or an exception
IsFailure(p) == p.outcome \in {"status", "exception"}

\* C12: with a webhook set the composed report is posted exactly once per
\* run: nothing is posted before it is composed, one post carries it once
\* send_discord_message has returned, and never a second one, whether the
\* post succeeded or failed; a failed post is recorded with its outcome,
\* raises nothing (the run is not aborted) and the run goes on to its end
C12_ReportPostedOnceNoRetry ==
    webhook =>
        /\ pc # "aborted"
        /\ pc \in {"main", "appended", "composed"} => posts = <<>>
        /\ pc \in {"sent", "done"} => Len(ReportPosts) = 1
        /\ Len(ReportPosts) <= 1
        /\ \A i \in 1..Len(posts) :
              (posts[i].content = "report" /\ IsFailure(posts[i])) =>
                  \A j \in (i + 1)..Len(posts) : posts[j].content # "report"

\* a run that ended after the post of its report had failed with an exception
C12_Witness ==
    /\ webhook
    /\ pc = "done"
    /\ variant = "TQQQ_SSO_QLD"
    /\ Len(ReportPosts) = 1
    /\ ReportPosts[1].outcome = "exception"

\* a run whose post got a status other than 200/204, followed by the ping
C12_WitnessStatus ==
    /\ webhook
    /\ pc = "done"
    /\ Len(posts) = 2
    /\ posts[1] = [content |-> "report", outcome |-> "status"]
    /\ posts[2].content = "ping"

\* the market was not open at the run, or no live price could be had
NoLivePrice ==
    \/ ~is_us_market_open_now(now)
    \/ get_current_price_live(provider.last_price, provider.hist) = None

\* sigma > 0, sigma being carried by its square
SigmaPositive(r) == r.sigma.num > 0

\* the statement as first made: without a live price the entry shows
\* current_price = prev_close and a return of 0, the condition is not met
\* when sigma > 0, and no entry at all shows a met condition
C13_MetOnlyWithLivePrice ==
    (pc = "appended" /\ variant = "TQQQ_SSO_QLD" /\ report.kind = "report") =>
        /\ NoLivePrice =>
              /\ report.current_price = report.prev_close
              /\ report.ret_today = Zero
              /\ SigmaPositive(report) => report.condition_met = Some(FALSE)
        /\ report.condition_met = Some(TRUE) => ~NoLivePrice

\* C13: in the TQQQ/SSO/QLD script, when the market is not open at the run
\* or the live price lookup fails, current_price equals prev_close and the
\* return of the day is 0, and the condition is reported as not met for a
\* ticker whose sigma is > 0; for a ticker whose sigma is > 0 a met
\* condition occurs only with the market open and a live price obtained
C13_MetOnlyWithLivePriceWhenSigmaPositive ==
    (pc = "appended" /\ variant = "TQQQ_SSO_QLD" /\ report.kind = "report") =>
        /\ NoLivePrice =>
              /\ report.current_price = report.prev_close
              /\ report.ret_today = Zero
              /\ SigmaPositive(report) => report.condition_met = Some(FALSE)
        /\ (SigmaPositive(report) /\ report.condition_met = Some(TRUE)) => ~NoLivePrice

\* the market is closed while the provider's last price lies below the
\* threshold price of a ticker with sigma > 0: the condition is not met
C13_Witness ==
    /\ pc = "appended"
    /\ variant = "TQQQ_SSO_QLD"
    /\ report.kind = "report"
    /\ SigmaPositive(report)
    /\ ~is_us_market_open_now(now)
    /\ provider.last_price # None
    /\ LeqThreshold(provider.last_price.v, report.prev_close.v, 2, report.sigma)
    /\ report.condition_met = Some(FALSE)

\* the market is open but neither last_price nor the last bar gives a price
C13_WitnessLookupFails ==
    /\ pc = "appended"
    /\ report.kind = "report"
    /\ SigmaPositive(report)
    /\ is_us_market_open_now(now)
    /\ get_current_price_live(provider.last_price, provider.hist) = None
    /\ report.current_price = report.prev_close

\* the market is open, the live price is below the threshold price: met
C13_WitnessMet ==
    /\ pc = "appended"
    /\ report.kind = "report"
    /\ SigmaPositive(report)
    /\ is_us_market_open_now(now)
    /\ report.condition_met = Some(TRUE)

====
